---- MODULE Spec2Model ----
(***************************************************************************)
(* A model of the kinetic-models pipeline:                                 *)
(*   src/import_kinetic_models.py  (scanner, citation resolver, assembler, *)
(*                                  publisher)                             *)
(*   src/download_rmg_models.py    (tree walker, mirror fetcher)           *)
(* Strings that the code inspects character by character (citation text,   *)
(* DOIs) are sequences of one-character strings.                           *)
(***************************************************************************)
EXTENDS Integers, Sequences, FiniteSets, TLC

VARIABLES
    clean_hist,     \* get_doi.clean: an input followed by successive results
    source,         \* get_doi: the text of source.txt
    doi_out,        \* get_doi: its outcome, or Unset before the call
    citation,       \* create_source: the text of the citation file at path
    source_out,     \* create_source: what the call returned or raised, or Unset
    post_endpoint,  \* the environment variable POST_ENDPOINT, or None
    mirror,         \* the entries of rmg-models/, in iterdir order
    pc,             \* where main is: "start", "loop", "done", "raised", "scanned"
    pos,            \* the entry of mirror the scan reaches next
    resolver_calls, \* names of the directories handed to create_source
    assembled,      \* the KineticModels create_kinetic_model returned
    posted,         \* names of the models whose POST was sent
    import_error,   \* the exception that ended main, or None
    scan_out,       \* a direct call of get_model_paths: its ignore list and result
    pat,            \* the environment variable PAT, or None
    tree,           \* the remote repository: a set of entries (path, type, download_url)
    dl_pc,          \* where get_paths / download_rmg_models is
    stack,          \* get_paths: one frame (contents, next index) per active generator
    paths,          \* the DownloadPaths yielded so far
    listing_calls,  \* the paths repo.get_contents was asked for
    procs,          \* cpu_count(), the size of the pool
    chunks,         \* Pool.map: the tasks (indexes into paths) cut into chunks
    next_chunk,     \* Pool.map: the next chunk no worker has taken
    workers,        \* per worker: the chunk it runs and its position in it
    task_state,     \* per task: "pending", "written", "error_body", "failed", "skipped"
    local_dirs,     \* directories made under the mirror root
    local_files,    \* files written under the mirror root, with what was written
    map_error       \* the exception Pool.map will raise, or None

textVars == <<clean_hist, source, doi_out, citation, source_out>>
importVars == <<post_endpoint, mirror, pc, pos, resolver_calls, assembled, posted,
                import_error, scan_out>>
dlVars == <<pat, tree, dl_pc, stack, paths, listing_calls, procs, chunks, next_chunk,
            workers, task_state, local_dirs, local_files, map_error>>
vars == <<textVars, importVars, dlVars>>

\* ------------------------------------------------------------------ bounds
MaxCleanLen == 3    \* longest string handed to clean
MaxSuffix == 2      \* longest DOI suffix in a citation text
MaxMatches == 2     \* most DOI-shaped substrings in a citation text
MaxAuthors == 2     \* most author entries in a lookup result
NumEntries == 2     \* entries in the mirror root
MaxThermo == 2      \* most entries in a thermo library file
MaxDepth == 2       \* deepest entry of a remote tree
MaxProcs == 2       \* largest cpu_count()

\* ------------------------------------------------------------ text helpers
Unset == [kind |-> "unset"]

Digits == {"0", "1", "2", "3", "4", "5", "6", "7", "8", "9"}
Whitespace == {" ", "\n", "\t"}

SeqsUpTo(S, n) == UNION {[1..k -> S] : k \in 0..n}

Range(s) == {s[i] : i \in 1..Len(s)}

\* str.count for a one-character needle
Count(s, ch) == Cardinality({i \in 1..Len(s) : s[i] = ch})

\* str.endswith for a one-character suffix
EndsWith(s, ch) == Len(s) > 0 /\ s[Len(s)] = ch

\* s[:-1]
DropLast(s) == SubSeq(s, 1, Len(s) - 1)

\* str.rstrip(".")
RECURSIVE RStripDot(_)
RStripDot(s) == IF EndsWith(s, ".") THEN RStripDot(DropLast(s)) ELSE s

\* length of the longest run of characters of S in s starting at index i
RECURSIVE RunLen(_, _, _)
RunLen(s, i, S) == IF i <= Len(s) /\ s[i] \in S THEN 1 + RunLen(s, i + 1, S) ELSE 0

\* ------------------------------------------------------- the DOI pattern
\* re.compile(r"10.\d{4,9}/\S+"): "10", any character but a newline, four to
\* nine digits, a slash, one or more non-whitespace characters (greedy).
MinDigits == 4
MaxDigits == 9

RECURSIVE NonWsRun(_, _)
NonWsRun(s, i) ==
    IF i <= Len(s) /\ s[i] \notin Whitespace THEN 1 + NonWsRun(s, i + 1) ELSE 0

\* index of the last character of the match that starts at i, or 0 when the
\* pattern does not match at i
MatchEnd(s, i) ==
    IF /\ i + 2 <= Len(s)
       /\ s[i] = "1"
       /\ s[i + 1] = "0"
       /\ s[i + 2] # "\n"
    THEN LET d == RunLen(s, i + 3, Digits)     \* \d{4,9} must stop at the slash
             slash == i + 3 + d
         IN IF /\ d >= MinDigits
               /\ d <= MaxDigits
               /\ slash <= Len(s)
               /\ s[slash] = "/"
               /\ NonWsRun(s, slash + 1) >= 1
            THEN slash + NonWsRun(s, slash + 1)
            ELSE 0
    ELSE 0

\* regex.findall: leftmost, non-overlapping matches
RECURSIVE FindAllFrom(_, _)
FindAllFrom(s, i) ==
    IF i > Len(s) THEN <<>>
    ELSE LET e == MatchEnd(s, i)
         IN IF e > 0 THEN <<SubSeq(s, i, e)>> \o FindAllFrom(s, e + 1)
            ELSE FindAllFrom(s, i + 1)

findall(s) == FindAllFrom(s, 1)

\* ---------------------------------------------------------------- get_doi
\* one pass of the loop body of clean for the pair (opening, closing)
CleanPair(doi, opening, closing) ==
    IF EndsWith(doi, closing) /\ Count(doi, closing) - Count(doi, opening) = 1
    THEN DropLast(doi)
    ELSE doi

\* for opening, closing in ["()", "[]"]: ...
clean(doi) == CleanPair(CleanPair(doi, "(", ")"), "[", "]")

\* [clean(d) for d in [d.rstrip(".") for d in regex.findall(source)]]
matched_list(text) ==
    [i \in 1..Len(findall(text)) |-> clean(RStripDot(findall(text)[i]))]

matched_set(text) == Range(matched_list(text))

\* get_doi with the ambiguity test off by one
get_doi_lax(text) ==
    IF Cardinality(matched_set(text)) = 0
    THEN [kind |-> "DOIError", reason |-> "not found", doi |-> <<>>]
    ELSE IF Cardinality(matched_set(text)) > 2
    THEN [kind |-> "DOIError", reason |-> "multiple", doi |-> <<>>]
    ELSE [kind |-> "ok", reason |-> "", doi |-> matched_list(text)[1]]

get_doi(text) ==
    IF Cardinality(matched_set(text)) = 0
    THEN [kind |-> "DOIError", reason |-> "not found", doi |-> <<>>]
    ELSE IF Cardinality(matched_set(text)) > 1
    THEN [kind |-> "DOIError", reason |-> "multiple", doi |-> <<>>]
    ELSE [kind |-> "ok", reason |-> "", doi |-> matched_list(text)[1]]

\* ------------------------------------------------- inputs of the text functions
DoiPrefix == <<"1", "0", ".", "1", "0", "0", "0", "/">>
SuffixChars == {"x", ")", "."}
CleanChars == {"x", "(", ")", "[", "]"}

Suffixes == SeqsUpTo(SuffixChars, MaxSuffix) \ {<<>>}

\* text before the DOIs drawn from Suffixes: nothing, a reference number with
\* too few digits to be a DOI, or the DOI 10.1000/(x) with its balanced brackets
Leads ==
    {<<>>,
     <<"1", "0", ".", "1", "0", "0", "/", "x", " ">>,
     DoiPrefix \o <<"(", "x", ")", " ">>}

RECURSIVE Citations(_)
Citations(k) ==
    IF k = 0 THEN {<<>>}
    ELSE Citations(k - 1) \cup
         {t \o DoiPrefix \o s \o <<" ">> : t \in Citations(k - 1), s \in Suffixes}

Texts == {l \o t : l \in Leads, t \in Citations(MaxMatches)}

CleanInputs == SeqsUpTo(CleanChars, MaxCleanLen)

\* ------------------------------------------------ clean, applied repeatedly
CleanIdle == clean_hist = <<>>

CleanInit == clean_hist \in {<<x>> : x \in CleanInputs}

\* clean is applied to the previous result
ApplyClean ==
    /\ clean_hist # <<>>
    /\ Len(clean_hist) < 3
    /\ clean_hist' = Append(clean_hist, clean(clean_hist[Len(clean_hist)]))
    /\ UNCHANGED <<source, doi_out, citation, source_out, importVars, dlVars>>

\* ----------------------------------------------------- get_doi on a text
DoiIdle == source = <<>> /\ doi_out = Unset

DoiInit == source \in Texts /\ doi_out = Unset

CallGetDoi ==
    /\ doi_out = Unset
    /\ doi_out' = get_doi(source)
    /\ UNCHANGED <<source, clean_hist, citation, source_out, importVars, dlVars>>

\* ------------------------------------------------------ create_source
None == [kind |-> "None"]
Some(v) == [kind |-> "some", val |-> v]
Raise(exc, arg) == [kind |-> "raise", exc |-> exc, arg |-> arg]

\* create_authors, consumed by list(authors): the first entry without a given
\* or family name raises; a list that is None raises before any entry is read
RECURSIVE AuthorsFrom(_, _)
AuthorsFrom(author_entries, i) ==
    IF i > Len(author_entries) THEN [kind |-> "list", val |-> <<>>]
    ELSE IF author_entries[i].given = None \/ author_entries[i].family = None
    THEN Raise("InvalidAuthorData", author_entries[i])
    ELSE LET rest == AuthorsFrom(author_entries, i + 1)
             author == [firstname |-> author_entries[i].given,
                        lastname |-> author_entries[i].family]
         IN IF rest.kind = "raise" THEN rest
            ELSE [kind |-> "list", val |-> <<author>> \o rest.val]

create_authors(author_entries) ==
    IF author_entries = None THEN Raise("MissingAuthorData", None)
    ELSE AuthorsFrom(author_entries.val, 1)

\* title_body[0] if isinstance(title_body, list) else title_body
FirstIfList(body) == IF body.kind = "list" THEN body.val[1] ELSE body.val

\* lookup is the outcome of crossref.works(ids=doi): a transport failure, or the
\* "message" document; validates is the verdict of the generated Source model
\* on the arguments (pydantic's ValidationError when FALSE)
create_source(text, lookup, validates) ==
    LET got == get_doi(text)
    IN IF got.kind = "DOIError" THEN None                  \* except DOIError
       ELSE IF lookup.kind = "error" THEN Raise("HTTPError", None)
       ELSE LET reference == lookup.message
                year == IF reference.created = None
                        THEN [kind |-> "str", val |-> ""]
                        ELSE [kind |-> "int", val |-> reference.created.val]
                authors == create_authors(reference.author)
            IN IF authors.kind = "raise"
               THEN IF authors.exc = "InvalidAuthorData"
                    THEN None                               \* except InvalidAuthorData
                    ELSE authors                            \* MissingAuthorData escapes
               ELSE IF ~validates THEN None                 \* except ValidationError
               ELSE [kind |-> "Source",
                     doi |-> got.doi,
                     publication_year |-> year,
                     title |-> FirstIfList(reference.title),
                     journal_name |-> FirstIfList(reference.short_container_title),
                     journal_volume |-> reference.volume,
                     page_numbers |-> reference.page,
                     authors |-> authors.val]

\* ------------------------------------------ inputs of the citation resolver
NameValues == {None, Some(""), Some("Ann")}
AuthorEntries == [given : NameValues, family : NameValues]
AuthorData == {None} \cup {Some(a) : a \in SeqsUpTo(AuthorEntries, MaxAuthors)}

Messages ==
    [created : {None, Some(2020)},
     title : {[kind |-> "str", val |-> "T"], [kind |-> "list", val |-> <<"T", "U">>]},
     short_container_title : {[kind |-> "list", val |-> <<"J">>]},
     volume : {"1"},
     page : {"1-2"},
     author : AuthorData]

Lookups == {[kind |-> "error"]} \cup {[kind |-> "ok", message |-> m] : m \in Messages}

OneDoi == DoiPrefix \o <<"x", ")", ".", " ">>
NoDoi == <<"x", " ">>
TwoDois == DoiPrefix \o <<"x", " ">> \o DoiPrefix \o <<"x", "x", " ">>

CitationFiles == {NoDoi, OneDoi, TwoDois}

SourceIdle == citation = <<>> /\ source_out = Unset

SourceInit == citation \in CitationFiles /\ source_out = Unset

CallCreateSource ==
    /\ source_out = Unset
    /\ \E lookup \in Lookups, validates \in BOOLEAN :
           source_out' = [in |-> lookup, out |-> create_source(citation, lookup, validates)]
    /\ UNCHANGED <<citation, clean_hist, source, doi_out, importVars, dlVars>>

\* ---------------------------------------------------- get_model_paths
ModelDir(name) ==
    [name |-> name,
     thermo_path |-> <<name, "RMG-Py-thermo-library", "ThermoLibrary.py">>,
     kinetics_path |-> <<name, "RMG-Py-kinetics-library", "reactions.py">>,
     source_path |-> <<name, "source.txt">>]

\* the test of line 43 with the source.txt check forgotten
QualifiesNoSource(entry, ignore_list) ==
    /\ entry.is_dir
    /\ entry.name \notin ignore_list
    /\ entry.thermo # None
    /\ entry.kinetics # None

\* path.is_dir() and name not in ignore_list and all(p.exists() for p in paths)
Qualifies(entry, ignore_list) ==
    /\ entry.is_dir
    /\ entry.name \notin ignore_list
    /\ entry.thermo # None
    /\ entry.kinetics # None
    /\ entry.source # None

RECURSIVE ModelPathsFrom(_, _, _)
ModelPathsFrom(entries, ignore_list, i) ==
    IF i > Len(entries) THEN <<>>
    ELSE (IF Qualifies(entries[i], ignore_list) THEN <<ModelDir(entries[i].name)>> ELSE <<>>)
         \o ModelPathsFrom(entries, ignore_list, i + 1)

get_model_paths(entries, ignore_list) == ModelPathsFrom(entries, ignore_list, 1)

\* ------------------------------------------------- create_kinetic_model
\* create_thermo: one (Thermo, NamedSpecies) pair per entry of the library
create_thermo(species_names) ==
    [i \in 1..Len(species_names) |->
        <<[kind |-> "Thermo", species |-> species_names[i]],
          [kind |-> "NamedSpecies", name |-> species_names[i]]>>]

\* create_kinetics: one Kinetics per entry; create_reaction and
\* create_kinetics_data are stubs that return None
create_kinetics(entries) ==
    [i \in 1..Len(entries) |->
        [kind |-> "Kinetics", reaction |-> None, data |-> None, source |-> None,
         for_reverse |-> FALSE]]

\* entry is the directory model_dir names; the source file is opened by get_doi
create_kinetic_model(entry, lookup, validates) ==
    LET src == IF entry.source = None THEN Raise("FileNotFoundError", None)
               ELSE create_source(entry.source.val, lookup, validates)
        pairs == create_thermo(entry.thermo.val)
    IN IF src.kind = "raise" THEN src
       ELSE IF Len(pairs) # 2 THEN Raise("ValueError", None)   \* thermo, named_species = ...
       ELSE [kind |-> "KineticModel",
             name |-> entry.name,
             named_species |-> pairs[2],
             thermo |-> pairs[1],
             kinetics |-> create_kinetics(entry.kinetics.val),
             source |-> src]

\* ------------------------------------------------------ inputs of main
DirNames == <<"model_A", "model_B", "model_C", "model_D">>
ThermoNames == <<"H2", "O2", "CH4", "H2O">>

ThermoFiles == {None} \cup {Some(SubSeq(ThermoNames, 1, n)) : n \in 0..MaxThermo}
KineticsFiles == {None, Some(<<[species |-> {"H2", "OH"}]>>)}
SourceFiles == {None, Some(NoDoi), Some(OneDoi)}

EntryShapes ==
    [is_dir : {TRUE}, thermo : ThermoFiles, kinetics : KineticsFiles, source : SourceFiles]
    \cup [is_dir : {FALSE}, thermo : {None}, kinetics : {None}, source : {None}]

Named(shape, name) ==
    [name |-> name, is_dir |-> shape.is_dir, thermo |-> shape.thermo,
     kinetics |-> shape.kinetics, source |-> shape.source]

Mirrors == {[i \in 1..NumEntries |-> Named(f[i], DirNames[i])] : f \in [1..NumEntries -> EntryShapes]}

GoodAuthors == Some(<<[given |-> Some("Ann"), family |-> Some("Lee")]>>)

ImportLookups ==
    {[kind |-> "error"]} \cup
    {[kind |-> "ok",
      message |-> [created |-> Some(2020), title |-> [kind |-> "str", val |-> "T"],
                   short_container_title |-> [kind |-> "list", val |-> <<"J">>],
                   volume |-> "1", page |-> "1-2", author |-> a]] :
        a \in {None, GoodAuthors}}

\* ------------------------------------------------------------------- main
ImportIdle ==
    /\ post_endpoint = None /\ mirror = <<>> /\ pc = "idle" /\ pos = 0
    /\ resolver_calls = <<>> /\ assembled = <<>> /\ posted = <<>>
    /\ import_error = None /\ scan_out = Unset

ImportInit ==
    /\ post_endpoint \in {None, Some("http://catalogue/models")}
    /\ mirror \in Mirrors
    /\ pc = "start" /\ pos = 0
    /\ resolver_calls = <<>> /\ assembled = <<>> /\ posted = <<>>
    /\ import_error = None /\ scan_out = Unset

\* main, lines 266-268
MainMissingEndpoint ==
    /\ pc = "start" /\ post_endpoint = None
    /\ pc' = "raised"
    /\ import_error' = Some("EnvironmentVariableMissing")
    /\ UNCHANGED <<textVars, dlVars, post_endpoint, mirror, pos, resolver_calls, assembled, posted, scan_out>>

\* main calls import_rmg_models, which makes the generator of model directories
MainStart ==
    /\ pc = "start" /\ post_endpoint # None
    /\ pc' = "loop" /\ pos' = 1
    /\ UNCHANGED <<textVars, dlVars, post_endpoint, mirror, resolver_calls, assembled, posted,
                   import_error, scan_out>>

\* the generator passes over an entry that does not qualify
ScanSkip ==
    /\ pc = "loop" /\ pos <= Len(mirror)
    /\ ~Qualifies(mirror[pos], {})
    /\ pos' = pos + 1
    /\ UNCHANGED <<textVars, dlVars, post_endpoint, mirror, pc, resolver_calls, assembled, posted,
                   import_error, scan_out>>

\* create_kinetic_model raises: nothing catches it, main ends
ImportModelRaises ==
    /\ pc = "loop" /\ pos <= Len(mirror)
    /\ Qualifies(mirror[pos], {})
    /\ \E lookup \in ImportLookups, validates \in BOOLEAN :
          LET km == create_kinetic_model(mirror[pos], lookup, validates)
          IN /\ km.kind = "raise"
             /\ import_error' = Some(km.exc)
    /\ resolver_calls' = Append(resolver_calls, mirror[pos].name)
    /\ pc' = "raised"
    /\ UNCHANGED <<textVars, dlVars, post_endpoint, mirror, pos, assembled, posted, scan_out>>

\* the model is assembled and requests.post raises: main ends
ImportPostRaises ==
    /\ pc = "loop" /\ pos <= Len(mirror)
    /\ Qualifies(mirror[pos], {})
    /\ \E lookup \in ImportLookups, validates \in BOOLEAN :
          LET km == create_kinetic_model(mirror[pos], lookup, validates)
          IN /\ km.kind = "KineticModel"
             /\ assembled' = Append(assembled, km)
    /\ resolver_calls' = Append(resolver_calls, mirror[pos].name)
    /\ import_error' = Some("ConnectionError")
    /\ pc' = "raised"
    /\ UNCHANGED <<textVars, dlVars, post_endpoint, mirror, pos, posted, scan_out>>

\* the model is assembled and sent; the response is not looked at
ImportModelPosted ==
    /\ pc = "loop" /\ pos <= Len(mirror)
    /\ Qualifies(mirror[pos], {})
    /\ \E lookup \in ImportLookups, validates \in BOOLEAN :
          LET km == create_kinetic_model(mirror[pos], lookup, validates)
          IN /\ km.kind = "KineticModel"
             /\ assembled' = Append(assembled, km)
    /\ resolver_calls' = Append(resolver_calls, mirror[pos].name)
    /\ posted' = Append(posted, mirror[pos].name)
    /\ pos' = pos + 1
    /\ UNCHANGED <<textVars, dlVars, post_endpoint, mirror, pc, import_error, scan_out>>

\* the generator is exhausted
ImportDone ==
    /\ pc = "loop" /\ pos > Len(mirror)
    /\ pc' = "done"
    /\ UNCHANGED <<textVars, dlVars, post_endpoint, mirror, pos, resolver_calls, assembled, posted,
                   import_error, scan_out>>

\* get_model_paths called on the mirror with an ignore list, read to its end
CallGetModelPaths ==
    /\ pc = "start"
    /\ \E ignore_list \in SUBSET {mirror[i].name : i \in 1..Len(mirror)} :
           scan_out' = [ignore_list |-> ignore_list,
                        out |-> get_model_paths(mirror, ignore_list)]
    /\ pc' = "scanned"
    /\ UNCHANGED <<textVars, dlVars, post_endpoint, mirror, pos, resolver_calls, assembled, posted,
                   import_error>>

ImportNext ==
    \/ MainMissingEndpoint
    \/ MainStart
    \/ ScanSkip
    \/ ImportModelRaises
    \/ ImportPostRaises
    \/ ImportModelPosted
    \/ ImportDone
    \/ CallGetModelPaths

\* -------------------------------------------------------------- get_paths
ChildNames == <<"a", "b">>
DataPath == <<"rmg-models">>

FileEntry(path) ==
    [path |-> path, type |-> "file", download_url |-> Some(<<"https://raw">> \o path)]
DirEntry(path) == [path |-> path, type |-> "dir", download_url |-> None]

\* repo.get_contents(path): the entries directly under path, in name order
RECURSIVE ContentsFrom(_, _, _)
ContentsFrom(t, path, k) ==
    IF k > Len(ChildNames) THEN <<>>
    ELSE LET here == {n \in t : n.path = Append(path, ChildNames[k])}
         IN (IF here = {} THEN <<>> ELSE <<CHOOSE n \in here : TRUE>>)
            \o ContentsFrom(t, path, k + 1)

get_contents(t, path) == ContentsFrom(t, path, 1)

DownloadPath(path, download_url) == [path |-> path, download_url |-> download_url]

\* the test of line 24 never taken: a directory is yielded like a file
RecursesNever(content) == FALSE

\* content.type == "dir": recurse into its listing
Recurses(content) == content.type = "dir"

\* the innermost generator looks at its next entry
Top == stack[Len(stack)]
TopContent == Top.contents[Top.i]
Advanced == [stack EXCEPT ![Len(stack)].i = @ + 1]

\* yield from get_paths(repo, data_path, repo.get_contents(content.path))
WalkDir ==
    /\ dl_pc = "walk" /\ stack # <<>> /\ Top.i <= Len(Top.contents)
    /\ Recurses(TopContent)
    /\ listing_calls' = Append(listing_calls, TopContent.path)
    /\ stack' = Append(Advanced, [contents |-> get_contents(tree, TopContent.path), i |-> 1])
    /\ UNCHANGED <<textVars, importVars, pat, tree, dl_pc, paths, procs, chunks, next_chunk,
                   workers, task_state, local_dirs, local_files, map_error>>

\* yield DownloadPath(data_path / content.path, content.download_url)
WalkFile ==
    /\ dl_pc = "walk" /\ stack # <<>> /\ Top.i <= Len(Top.contents)
    /\ ~Recurses(TopContent)
    /\ paths' = Append(paths, DownloadPath(DataPath \o TopContent.path, TopContent.download_url))
    /\ stack' = Advanced
    /\ UNCHANGED <<textVars, importVars, pat, tree, dl_pc, listing_calls, procs, chunks,
                   next_chunk, workers, task_state, local_dirs, local_files, map_error>>

\* a generator reaches the end of its contents; the outermost one ends the walk
WalkReturn ==
    /\ dl_pc = "walk" /\ stack # <<>> /\ Top.i > Len(Top.contents)
    /\ stack' = SubSeq(stack, 1, Len(stack) - 1)
    /\ dl_pc' = IF Len(stack) = 1 THEN "walked" ELSE "walk"
    /\ UNCHANGED <<textVars, importVars, pat, tree, paths, listing_calls, procs, chunks,
                   next_chunk, workers, task_state, local_dirs, local_files, map_error>>

\* ------------------------------------------------------ remote trees
\* every way to fill the names under path, to the given depth
RECURSIVE Forests(_, _, _)
Forests(path, depth, k) ==
    IF depth = 0 \/ k > Len(ChildNames) THEN {{}}
    ELSE LET p == Append(path, ChildNames[k])
             child == {{}} \cup {{FileEntry(p)}}
                      \cup {{DirEntry(p)} \cup f : f \in Forests(p, depth - 1, 1)}
         IN {c \cup r : c \in child, r \in Forests(path, depth, k + 1)}

Trees == Forests(<<>>, MaxDepth, 1)

PoolIdle ==
    /\ procs = 0 /\ chunks = <<>> /\ next_chunk = 0 /\ workers = <<>>
    /\ task_state = <<>> /\ local_dirs = {} /\ local_files = {} /\ map_error = None

DownloadIdle ==
    /\ pat = None /\ tree = {} /\ dl_pc = "idle" /\ stack = <<>> /\ paths = <<>>
    /\ listing_calls = <<>> /\ PoolIdle

\* get_paths(repo, data_path, contents) called with the listing of the root
WalkInit ==
    /\ pat = None /\ tree \in Trees /\ dl_pc = "walk"
    /\ stack = <<[contents |-> get_contents(tree, <<>>), i |-> 1]>>
    /\ paths = <<>> /\ listing_calls = <<>> /\ PoolIdle

\* ------------------------------------------------ download_rmg_models
\* A tree with enough files for Pool.map to cut chunks of two tasks.
FiveFiles ==
    {DirEntry(<<"a">>), DirEntry(<<"a", "a">>), FileEntry(<<"a", "a", "a">>),
     FileEntry(<<"a", "a", "b">>), FileEntry(<<"a", "b">>),
     DirEntry(<<"b">>), FileEntry(<<"b", "a">>), FileEntry(<<"b", "b">>)}

DownloadTrees == Forests(<<>>, 1, 1) \cup {FiveFiles}

DownloadInit ==
    /\ pat \in {None, Some("token")} /\ tree \in DownloadTrees /\ dl_pc = "start"
    /\ stack = <<>> /\ paths = <<>> /\ listing_calls = <<>>
    /\ procs \in 1..MaxProcs
    /\ chunks = <<>> /\ next_chunk = 0 /\ workers = <<>>
    /\ task_state = <<>> /\ local_dirs = {} /\ local_files = {} /\ map_error = None

\* lines 38-44: PAT is read and handed to Github as it is, the root is listed
DownloadStart ==
    /\ dl_pc = "start"
    /\ listing_calls' = Append(listing_calls, <<>>)
    /\ stack' = <<[contents |-> get_contents(tree, <<>>), i |-> 1]>>
    /\ dl_pc' = "walk"
    /\ UNCHANGED <<textVars, importVars, pat, tree, paths, procs, chunks, next_chunk,
                   workers, task_state, local_dirs, local_files, map_error>>

\* Pool.map's chunksize: divmod(len(iterable), len(pool) * 4), rounded up
PoolFactor == 4
ChunkSize(n, p) ==
    IF n = 0 THEN 0
    ELSE (n \div (p * PoolFactor)) + (IF n % (p * PoolFactor) = 0 THEN 0 ELSE 1)

RECURSIVE ChunksFrom(_, _, _)
ChunksFrom(first, n, size) ==
    IF first > n THEN <<>>
    ELSE LET last == IF first + size - 1 > n THEN n ELSE first + size - 1
         IN <<[k \in 1..(last - first + 1) |-> first + k - 1]>>
            \o ChunksFrom(last + 1, n, size)

NoChunk == [chunk |-> 0, i |-> 0]

\* thread_pool.map(download, paths): the generator has been read to its end,
\* the tasks are cut into chunks and queued
MapStart ==
    /\ dl_pc = "walked"
    /\ chunks' = ChunksFrom(1, Len(paths), ChunkSize(Len(paths), procs))
    /\ next_chunk' = 1
    /\ workers' = [w \in 1..procs |-> NoChunk]
    /\ task_state' = [t \in 1..Len(paths) |-> "pending"]
    /\ dl_pc' = "pool"
    /\ UNCHANGED <<textVars, importVars, pat, tree, stack, paths, listing_calls, procs,
                   local_dirs, local_files, map_error>>

\* an idle worker takes the next chunk from the queue
WorkerTakes ==
    /\ dl_pc = "pool" /\ next_chunk <= Len(chunks)
    /\ \E w \in 1..procs :
           /\ workers[w] = NoChunk
           /\ workers' = [workers EXCEPT ![w] = [chunk |-> next_chunk, i |-> 1]]
    /\ next_chunk' = next_chunk + 1
    /\ UNCHANGED <<textVars, importVars, pat, tree, dl_pc, stack, paths, listing_calls,
                   procs, chunks, task_state, local_dirs, local_files, map_error>>

Busy(w) == workers[w] # NoChunk
TaskOf(w) == chunks[workers[w].chunk][workers[w].i]
ParentOf(path) == SubSeq(path, 1, Len(path) - 1)

\* the worker goes on to the next task of its chunk, or is idle after the last
Moved(w) ==
    IF workers[w].i < Len(chunks[workers[w].chunk])
    THEN [workers EXCEPT ![w].i = @ + 1]
    ELSE [workers EXCEPT ![w] = NoChunk]

\* download, lines 31-34, with a response that carries the file
DownloadWrites ==
    /\ dl_pc = "pool"
    /\ \E w \in 1..procs :
           /\ Busy(w)
           /\ local_dirs' = local_dirs \cup {ParentOf(paths[TaskOf(w)].path)}
           /\ local_files' = {f \in local_files : f.path # paths[TaskOf(w)].path}
                  \cup {[path |-> paths[TaskOf(w)].path, content |-> "payload"]}
           /\ task_state' = [task_state EXCEPT ![TaskOf(w)] = "written"]
           /\ workers' = Moved(w)
    /\ UNCHANGED <<textVars, importVars, pat, tree, dl_pc, stack, paths, listing_calls,
                   procs, chunks, next_chunk, map_error>>

\* download with a response whose status is not a success: the status is not
\* looked at and the body of the error response is written as the file
DownloadWritesErrorBody ==
    /\ dl_pc = "pool"
    /\ \E w \in 1..procs :
           /\ Busy(w)
           /\ local_dirs' = local_dirs \cup {ParentOf(paths[TaskOf(w)].path)}
           /\ local_files' = {f \in local_files : f.path # paths[TaskOf(w)].path}
                  \cup {[path |-> paths[TaskOf(w)].path, content |-> "error_body"]}
           /\ task_state' = [task_state EXCEPT ![TaskOf(w)] = "error_body"]
           /\ workers' = Moved(w)
    /\ UNCHANGED <<textVars, importVars, pat, tree, dl_pc, stack, paths, listing_calls,
                   procs, chunks, next_chunk, map_error>>

\* requests.get raises (network error, timeout): the exception ends the
\* worker's chunk, whose remaining tasks are never run; Pool.map keeps the
\* first exception
DownloadRaises ==
    /\ dl_pc = "pool"
    /\ \E w \in 1..procs :
           /\ Busy(w)
           /\ local_dirs' = local_dirs \cup {ParentOf(paths[TaskOf(w)].path)}
           /\ task_state' =
                  [t \in 1..Len(paths) |->
                      IF t = TaskOf(w) THEN "failed"
                      ELSE IF \E k \in (workers[w].i + 1)..Len(chunks[workers[w].chunk]) :
                                  chunks[workers[w].chunk][k] = t
                           THEN "skipped"
                           ELSE task_state[t]]
           /\ workers' = [workers EXCEPT ![w] = NoChunk]
           /\ map_error' = IF map_error = None
                           THEN Some([exc |-> "ConnectionError", task |-> TaskOf(w)])
                           ELSE map_error
    /\ UNCHANGED <<textVars, importVars, pat, tree, dl_pc, stack, paths, listing_calls,
                   procs, chunks, next_chunk, local_files>>

\* every chunk has reported: Pool.map returns, or raises the first exception
MapEnds ==
    /\ dl_pc = "pool" /\ next_chunk > Len(chunks)
    /\ \A w \in 1..procs : ~Busy(w)
    /\ dl_pc' = IF map_error = None THEN "done" ELSE "raised"
    /\ UNCHANGED <<textVars, importVars, pat, tree, stack, paths, listing_calls, procs,
                   chunks, next_chunk, workers, task_state, local_dirs, local_files,
                   map_error>>

\* ---------------------------------------------------------- specifications
TextIdle == CleanIdle /\ DoiIdle /\ SourceIdle

InitClean == CleanInit /\ DoiIdle /\ SourceIdle /\ ImportIdle /\ DownloadIdle
SpecClean == InitClean /\ [][ApplyClean]_vars

InitDoi == DoiInit /\ CleanIdle /\ SourceIdle /\ ImportIdle /\ DownloadIdle
SpecDoi == InitDoi /\ [][CallGetDoi]_vars

InitSource == SourceInit /\ CleanIdle /\ DoiIdle /\ ImportIdle /\ DownloadIdle
SpecSource == InitSource /\ [][CallCreateSource]_vars

InitImport == ImportInit /\ TextIdle /\ DownloadIdle
SpecImport == InitImport /\ [][ImportNext]_vars

WalkNext == WalkDir \/ WalkFile \/ WalkReturn

InitWalk == WalkInit /\ TextIdle /\ ImportIdle
SpecWalk == InitWalk /\ [][WalkNext]_vars

\* a generator that is being read runs to its end
FairSpecWalk == SpecWalk /\ WF_vars(WalkNext)

DownloadNext ==
    \/ DownloadStart
    \/ WalkDir
    \/ WalkFile
    \/ WalkReturn
    \/ MapStart
    \/ WorkerTakes
    \/ DownloadWrites
    \/ DownloadWritesErrorBody
    \/ DownloadRaises
    \/ MapEnds

InitDownload == DownloadInit /\ TextIdle /\ ImportIdle
SpecDownload == InitDownload /\ [][DownloadNext]_vars

\* ------------------------------------------------------------------ claims

\* C1: a failure while one model directory is processed aborts that model
\* only: when main has ended, every qualifying directory was handed to the
\* assembler, whatever happened to the directories before it.
HasAllArtifacts(entry) ==
    entry.is_dir /\ entry.thermo # None /\ entry.kinetics # None /\ entry.source # None

FailuresIsolated ==
    (pc \in {"done", "raised"} /\ post_endpoint # None) =>
        \A i \in 1..Len(mirror) :
            HasAllArtifacts(mirror[i]) => mirror[i].name \in Range(resolver_calls)

\* C2: get_doi returns a DOI exactly when one distinct cleaned DOI remains, and
\* then returns that DOI; no match at all is the "not found" DOIError; two or
\* more distinct cleaned DOIs are the "multiple" DOIError.
DoiCandidates == {clean(RStripDot(m)) : m \in Range(findall(source))}

GetDoiContract ==
    doi_out # Unset =>
        /\ (doi_out.kind = "ok") <=> (Cardinality(DoiCandidates) = 1)
        /\ doi_out.kind = "ok" => DoiCandidates = {doi_out.doi}
        /\ (doi_out.kind = "DOIError" /\ doi_out.reason = "not found")
               <=> (findall(source) = <<>>)
        /\ (doi_out.kind = "DOIError" /\ doi_out.reason = "multiple")
               <=> (Cardinality(DoiCandidates) >= 2)

\* two occurrences that differ only by stripped trailing punctuation gave one DOI
GetDoiMerged ==
    /\ doi_out # Unset
    /\ doi_out.kind = "ok"
    /\ Len(findall(source)) = 2
    /\ findall(source)[1] # findall(source)[2]
    /\ doi_out.doi = DoiPrefix \o <<"x">>

\* C3: clean is idempotent: cleaning a cleaned string changes nothing.
CleanIdempotent ==
    Len(clean_hist) = 3 => clean_hist[3] = clean_hist[2]

\* C4: create_source fails loudly: no DOI or several DOIs raise DOIError, an
\* absent author list raises MissingAuthorData, an entry without a given or
\* family name raises InvalidAuthorData naming it; None is never returned.
BadEntries(entries) ==
    {i \in 1..Len(entries) : entries[i].given = None \/ entries[i].family = None}

ResolverFailsLoudly ==
    source_out # Unset =>
        LET out == source_out.out
            n == Cardinality({clean(RStripDot(m)) : m \in Range(findall(citation))})
            answered == n = 1 /\ source_out.in.kind = "ok"
        IN /\ out # None
           /\ n # 1 => out.kind = "raise" /\ out.exc = "DOIError"
           /\ (answered /\ source_out.in.message.author = None)
                  => out.kind = "raise" /\ out.exc = "MissingAuthorData"
           /\ (answered /\ source_out.in.message.author # None
                        /\ BadEntries(source_out.in.message.author.val) # {})
                  => /\ out.kind = "raise"
                     /\ out.exc = "InvalidAuthorData"
                     /\ out.arg \in {source_out.in.message.author.val[i] :
                                        i \in BadEntries(source_out.in.message.author.val)}

\* C5: every Source that create_source returns has at least one author, and
\* every author has a first and a last name that are present and non-empty.
SourceAuthorsComplete ==
    (source_out # Unset /\ source_out.out.kind = "Source") =>
        /\ source_out.out.authors # <<>>
        /\ \A i \in 1..Len(source_out.out.authors) :
               LET a == source_out.out.authors[i]
               IN /\ a.firstname # None /\ a.firstname.val # ""
                  /\ a.lastname # None /\ a.lastname.val # ""

\* C6: every assembled KineticModel carries its directory's name, and its
\* named_species are exactly the species named by the thermo entries or by the
\* kinetics entries of that directory.
EntryNamed(name) == CHOOSE e \in Range(mirror) : e.name = name

SpeciesNamedIn(entry) ==
    Range(entry.thermo.val) \cup UNION {k.species : k \in Range(entry.kinetics.val)}

NamedSpeciesAreUnion ==
    \A k \in 1..Len(assembled) :
        /\ assembled[k].name = resolver_calls[k]
        /\ \A x \in Range(assembled[k].named_species) : x.kind = "NamedSpecies"
        /\ {x.name : x \in {y \in Range(assembled[k].named_species) : y.kind = "NamedSpecies"}}
               = SpeciesNamedIn(EntryNamed(assembled[k].name))

\* C7: download tasks are isolated: when the pool has drained, every task either
\* wrote its file or is a failure of its own fetch that was reported; no task is
\* left unfetched because another failed, and a response that is not a success
\* is a failure, not a file.
Reported(t) == map_error # None /\ map_error.val.task = t

TasksIsolated ==
    dl_pc \in {"done", "raised"} =>
        \A t \in 1..Len(paths) :
            \/ /\ task_state[t] = "written"
               /\ [path |-> paths[t].path, content |-> "payload"] \in local_files
            \/ task_state[t] = "failed" /\ Reported(t)

\* C8: get_model_paths yields an entry exactly when it is a directory, is not
\* ignored and has its thermo file, kinetics file and source.txt; a directory
\* that lacks one of them never reaches create_source.
ScannerExact ==
    /\ scan_out # Unset =>
           /\ \A i \in 1..Len(mirror) :
                  (\E j \in 1..Len(scan_out.out) : scan_out.out[j].name = mirror[i].name)
                      <=> (HasAllArtifacts(mirror[i]) /\ mirror[i].name \notin scan_out.ignore_list)
           /\ \A j, k \in 1..Len(scan_out.out) :
                  scan_out.out[j].name = scan_out.out[k].name => j = k
    /\ \A k \in 1..Len(resolver_calls) : HasAllArtifacts(EntryNamed(resolver_calls[k]))

\* of two directories, the one without source.txt was passed over and the
\* well-formed one was assembled and sent
OneOfTwoAssembled ==
    /\ pc = "done"
    /\ Len(assembled) = 1
    /\ \E i \in 1..Len(mirror) :
           /\ mirror[i].is_dir /\ mirror[i].thermo # None /\ mirror[i].kinetics # None
           /\ mirror[i].source = None
           /\ mirror[i].name \notin Range(resolver_calls)

\* C9: get_paths ends, and what it yields is exactly the files of the tree, each
\* once, as (data_path / path, download URL); no directory is yielded.
FilesOf(t) == {n \in t : n.type = "file"}

TaskFor(n) == DownloadPath(DataPath \o n.path, n.download_url)

YieldedAreFiles ==
    /\ \A i \in 1..Len(paths) : \E n \in FilesOf(tree) : paths[i] = TaskFor(n)
    /\ \A i, j \in 1..Len(paths) : paths[i] = paths[j] => i = j

WalkExact ==
    dl_pc = "walked" => Range(paths) = {TaskFor(n) : n \in FilesOf(tree)}

WalkPathComplete == <>(dl_pc = "walked") /\ [](YieldedAreFiles /\ WalkExact)

\* a walk that went through a directory inside a directory has ended
WalkedNested ==
    /\ dl_pc = "walked"
    /\ \E i \in 1..Len(paths) : Len(paths[i].path) = 3
    /\ \E n \in tree : n.type = "dir" /\ Len(n.path) = 2
    /\ Len(paths) >= 2

\* C10: both environment variables are checked before any work: with PAT unset
\* nothing is listed or downloaded, with POST_ENDPOINT unset nothing is scanned,
\* looked up or posted.
EnvCheckedFirst ==
    /\ (pat = None /\ dl_pc # "idle") =>
           /\ listing_calls = <<>>
           /\ local_files = {}
           /\ dl_pc \in {"start", "raised"}
    /\ (post_endpoint = None /\ pc \notin {"idle", "scanned"}) =>
           /\ pos = 0
           /\ resolver_calls = <<>>
           /\ posted = <<>>

====
